---- MODULE Spec2Model ----
(***************************************************************************)
(* Arduino Nano calculator (src/main.cpp): the key-handling state machine  *)
(* of handleKeyInput / setOperation / calculateResult, the polling loop    *)
(* and the render pass.                                                    *)
(*                                                                         *)
(* Text (an Arduino String) is a sequence of one-character strings.        *)
(* A float is a binary32 value [neg, m, e] = (-1)^neg * m * 2^e with m = 0  *)
(* or 2^23 <= m < 2^24; every arithmetic step rounds to nearest, ties to   *)
(* even, exactly as 32-bit float arithmetic does.  Infinities, NaN and     *)
(* subnormals are not represented: they need magnitudes above 3.4e38 or    *)
(* below 1.2e-38, which take more key presses than the runs checked here.  *)
(***************************************************************************)
EXTENDS Integers, Sequences, FiniteSets, TLC

(***************************************************************************)
(* Characters and text                                                     *)
(***************************************************************************)
DigitChars == <<"0", "1", "2", "3", "4", "5", "6", "7", "8", "9">>

\* isDigit(key), and key >= '0' && key <= '9'
isDigit(c) == \E i \in 1..10 : DigitChars[i] = c

DigitVal(c) == (CHOOSE i \in 1..10 : DigitChars[i] = c) - 1

\* String::endsWith(suffix)
endsWith(s, suffix) ==
    /\ Len(s) >= Len(suffix)
    /\ SubSeq(s, Len(s) - Len(suffix) + 1, Len(s)) = suffix

\* String::remove(index): drops everything from position index (0-based) on
remove(s, index) == IF index >= Len(s) THEN s ELSE SubSeq(s, 1, index)

\* the number of decimal digits of a natural number below 2^31
DecLen[n \in Nat] ==
    IF n >= 10^9 THEN 10
    ELSE CHOOSE k \in 1..9 : n < 10^k /\ (k = 1 \/ n >= 10^(k - 1))

\* the decimal digits of a natural number below 2^31
NatText[n \in Nat] ==
    [i \in 1..DecLen[n] |-> DigitChars[((n \div 10^(DecLen[n] - i)) % 10) + 1]]

\* the characters a String of the calculator can hold
Chars == {DigitChars[i] : i \in 1..10} \cup {".", "-"}
Text == Seq(Chars)

\* the number read from at most nine decimal digits
DecValue[s \in Text] ==
    IF s = <<>> THEN 0
    ELSE 10 * DecValue[SubSeq(s, 1, Len(s) - 1)] + DigitVal(s[Len(s)])

(***************************************************************************)
(* binary32 arithmetic.  The helpers are functions, so that an argument is  *)
(* computed once, where it is passed.                                      *)
(***************************************************************************)
Floats == [neg : BOOLEAN, m : Nat, e : Int]

FZero(neg) == [neg |-> neg, m |-> 0, e |-> 0]

\* the number of bits of a natural number below 2^31
BitLen[n \in Nat] ==
    IF n >= 2^30 THEN 31
    ELSE CHOOSE k \in 0..30 : n < 2^k /\ (k = 0 \/ n >= 2^(k - 1))

\* q * 2^e with q of more than 24 bits, k = BitLen[q] - 24 of them dropped:
\* to nearest, ties to even, sticky telling of nonzero bits below q
RoundDown[neg \in BOOLEAN, n \in Nat, e \in Int, sticky \in BOOLEAN, k \in Nat] ==
    LET q   == n \div 2^k
        rem == n % 2^k
        up  == rem >= 2^(k - 1) /\
               (sticky \/ (rem % 2^(k - 1)) # 0 \/ (q % 2) = 1)
    IN  IF up /\ q + 1 = 2^24 THEN [neg |-> neg, m |-> 2^23, e |-> e + k + 1]
        ELSE [neg |-> neg, m |-> IF up THEN q + 1 ELSE q, e |-> e + k]

\* (n + f) * 2^e with 0 <= f < 1, f # 0 iff sticky, rounded to 24 bits, to
\* nearest and ties to even.  n < 2^31; sticky is only given with n >= 2^24.
RoundNE[neg \in BOOLEAN, n \in Nat, e \in Int, sticky \in BOOLEAN] ==
    IF n = 0 THEN FZero(neg)
    ELSE IF n < 2^24
    THEN [neg |-> neg, m |-> n * 2^(24 - BitLen[n]), e |-> e - (24 - BitLen[n])]
    ELSE RoundDown[neg, n, e, sticky, BitLen[n] - 24]

\* |a| >= |b| for normalised values
MagGE(a, b) ==
    IF b.m = 0 THEN TRUE
    ELSE IF a.m = 0 THEN FALSE
    ELSE IF a.e # b.e THEN a.e > b.e
    ELSE a.m >= b.m

\* x shifted right by d bits, the lowest kept bit set when nonzero bits fell off
ShiftJam[x \in Nat, d \in Nat] ==
    IF d = 0 THEN x
    ELSE IF d >= 30 THEN (IF x > 0 THEN 1 ELSE 0)
    ELSE IF x % (2^d) # 0 THEN 2 * (x \div 2^(d + 1)) + 1
    ELSE x \div (2^d)

\* big + small for |big| >= |small| > 0, with three guard bits
AddOrdered[big \in Floats, small \in Floats] ==
    LET A == big.m * 8
        B == ShiftJam[small.m * 8, big.e - small.e]
    IN  IF big.neg = small.neg THEN RoundNE[big.neg, A + B, big.e - 3, FALSE]
        ELSE IF A = B THEN FZero(FALSE)
        ELSE RoundNE[big.neg, A - B, big.e - 3, FALSE]

\* num1 + num2
FAdd[a \in Floats, b \in Floats] ==
    IF a.m = 0 /\ b.m = 0 THEN FZero(a.neg /\ b.neg)
    ELSE IF b.m = 0 THEN a
    ELSE IF a.m = 0 THEN b
    ELSE IF MagGE(a, b) THEN AddOrdered[a, b]
    ELSE AddOrdered[b, a]

\* num1 - num2
FSub[a \in Floats, b \in Floats] == FAdd[a, [b EXCEPT !.neg = ~b.neg]]

\* hi * 2^24 + low, with low < 2^26, as limbs
Carry[hi \in Nat, low \in Nat] ==
    [hi |-> hi + (low \div 2^24), lo |-> low % 2^24]

\* (ah * 2^12 + al) * (bh * 2^12 + bl) as limbs
MulHalves[ah \in Nat, al \in Nat, bh \in Nat, bl \in Nat] ==
    Carry[ah * bh + ((ah * bl + al * bh) \div 2^12),
          al * bl + ((ah * bl + al * bh) % 2^12) * 2^12]

\* a * b as hi * 2^24 + lo, for a < 2^30 and b < 2^24, in 12-bit halves
MulLimbs[a \in Nat, b \in Nat] ==
    MulHalves[a \div 2^12, a % 2^12, b \div 2^12, b % 2^12]

Limbs == [hi : Nat, lo : Nat]

\* the float of the 48-bit product p of two mantissas, times 2^e
RoundProduct[neg \in BOOLEAN, p \in Limbs, e \in Int] ==
    RoundNE[neg, p.hi * 4 + (p.lo \div 2^22), e + 22, (p.lo % 2^22) # 0]

\* num1 * num2
FMul[a \in Floats, b \in Floats] ==
    IF a.m = 0 \/ b.m = 0 THEN FZero(a.neg # b.neg)
    ELSE RoundProduct[a.neg # b.neg, MulLimbs[a.m, b.m], a.e + b.e]

\* long division: k more quotient bits of (q + r / d), k <= 7
DivStep[q \in Nat, r \in Nat, d \in Nat, k \in Nat] ==
    [q |-> q * 2^k + ((r * 2^k) \div d), r |-> (r * 2^k) % d]

QuotRem == [q : Nat, r : Nat]

DivNext[s \in QuotRem, d \in Nat, k \in Nat] == DivStep[s.q, s.r, d, k]

\* a / b for mantissas a and b, to 26 quotient bits (7, 7, 7 and 5 at a time)
\* and a remainder
DivBits[a \in Nat, b \in Nat] ==
    DivNext[DivNext[DivNext[DivStep[a \div b, a % b, b, 7], b, 7], b, 7], b, 5]

\* the float of the quotient x of two mantissas, times 2^e
RoundQuotient[neg \in BOOLEAN, x \in QuotRem, e \in Int] ==
    RoundNE[neg, x.q, e - 26, x.r # 0]

\* num1 / num2 for num2 # 0
FDiv[a \in Floats, b \in Floats] ==
    IF a.m = 0 THEN FZero(a.neg # b.neg)
    ELSE RoundQuotient[a.neg # b.neg, DivBits[a.m, b.m], a.e - b.e]

(***************************************************************************)
(* Text <-> float                                                          *)
(*                                                                         *)
(* A number too wide for one machine word of TLC is held in two            *)
(* limbs, hi * 2^24 + lo with lo < 2^24.                                   *)
(***************************************************************************)
\* (hi * 2^24 + lo) * 2^e doubled j times, j <= 24
LimbsShift[hi \in Nat, lo \in Nat, e \in Int, j \in Nat] ==
    [hi |-> hi * 2^j + (lo \div 2^(24 - j)),
     lo |-> (lo % 2^(24 - j)) * 2^j,
     e  |-> e - j]

\* (hi * 2^24 + lo) * 2^e with 0 < hi < 2^24, doubled until hi has 25 bits
LimbsShiftUp[hi \in Nat, lo \in Nat, e \in Int] ==
    LimbsShift[hi, lo, e, 25 - BitLen[hi]]

ScaledLimbs == [hi : Nat, lo : Nat, e : Int]

\* the float nearest to (p.hi * 2^24 + p.lo + f) * 2^p.e with p.hi >= 2^24,
\* 0 <= f < 1, f # 0 iff sticky
RoundLimbs[neg \in BOOLEAN, p \in ScaledLimbs, sticky \in BOOLEAN] ==
    RoundNE[neg, p.hi, p.e + 24, sticky \/ p.lo # 0]

\* the float nearest to (hi * 2^24 + lo + f) * 2^e, 0 <= f < 1, f # 0 iff
\* sticky; sticky is only given with hi > 0
FromLimbs[neg \in BOOLEAN, hi \in Nat, lo \in Nat, e \in Int, sticky \in BOOLEAN] ==
    IF hi = 0 THEN RoundNE[neg, lo, e, FALSE]
    ELSE IF hi >= 2^24 THEN RoundNE[neg, hi, e + 24, sticky \/ lo # 0]
    ELSE RoundLimbs[neg, LimbsShiftUp[hi, lo, e], sticky]

\* limbs p plus low < 2^24
AddLow[p \in Limbs, low \in Nat] == Carry[p.hi, p.lo + low]

\* the number read from at most sixteen decimal digits, in limbs
DigitsToLimbs[s \in Text] ==
    IF Len(s) <= 9 THEN Carry[0, DecValue[s]]
    ELSE AddLow[MulLimbs[DecValue[SubSeq(s, 1, Len(s) - 7)], 10^7],
                DecValue[SubSeq(s, Len(s) - 6, Len(s))]]

\* the length of the run of digits of s that starts at position from
DigitRun[s \in Text, from \in Nat] ==
    IF \A i \in from..Len(s) : isDigit(s[i]) THEN Len(s) - from + 1
    ELSE (CHOOSE i \in from..Len(s) :
             ~isDigit(s[i]) /\ \A j \in from..(i - 1) : isDigit(s[j])) - from

\* p / den for den <= 100 and p.hi >= 2^24, to the nearest float
DivideLimbs[neg \in BOOLEAN, p \in ScaledLimbs, den \in Nat] ==
    FromLimbs[neg, p.hi \div den, ((p.hi % den) * 2^24 + p.lo) \div den, p.e,
              (((p.hi % den) * 2^24 + p.lo) % den) # 0]

\* the float nearest to v / den, den = 1, 10 or 100
DecimalToFloat[neg \in BOOLEAN, v \in Limbs, den \in Nat] ==
    IF v.hi = 0 /\ v.lo = 0 THEN FZero(neg)
    ELSE IF den = 1 THEN FromLimbs[neg, v.hi, v.lo, 0, FALSE]
    ELSE IF v.hi >= 2^24
    THEN DivideLimbs[neg, [hi |-> v.hi, lo |-> v.lo, e |-> 0], den]
    ELSE IF v.hi > 0 THEN DivideLimbs[neg, LimbsShiftUp[v.hi, v.lo, 0], den]
    ELSE DivideLimbs[neg, LimbsShiftUp[v.lo, 0, -24], den]

\* 10^f for the f <= 2 decimals a stored result carries
Pow10(f) == IF f = 0 THEN 1 ELSE IF f = 1 THEN 10 ELSE 100

\* the number whose text is body: ni digits, then a '.' and nf digits if nf > 0
ReadNumber[neg \in BOOLEAN, body \in Text, ni \in Nat, nf \in Nat] ==
    IF ni + nf = 0 THEN FZero(FALSE)
    ELSE DecimalToFloat[neg,
                        DigitsToLimbs[SubSeq(body, 1, ni) \o
                                      SubSeq(body, ni + 2, ni + 1 + nf)],
                        Pow10(nf)]

\* the number whose text is body, after ni leading digits were counted
ReadFraction[neg \in BOOLEAN, body \in Text, ni \in Nat] ==
    ReadNumber[neg, body, ni,
               IF Len(body) > ni /\ body[ni + 1] = "."
               THEN DigitRun[body, ni + 2] ELSE 0]

\* String::toFloat(): an optional '-', digits, an optional '.' and digits;
\* parsing stops at the first other character and text with no digits is 0.
\* The value is the float nearest to the decimal number read.
toFloat(s) ==
    IF s # <<>> /\ Head(s) = "-"
    THEN ReadFraction[TRUE, Tail(s), DigitRun[Tail(s), 1]]
    ELSE ReadFraction[FALSE, s, DigitRun[s, 1]]

\* the decimal digits of m < 2^24, least significant first
LsbDigits[m \in Nat] == [i \in 1..DecLen[m] |-> (m \div 10^(i - 1)) % 10]

\* twice a decimal number given least significant digit first
DoubleLsb[d \in Seq(0..9)] ==
    [i \in 1..(Len(d) + (IF d[Len(d)] >= 5 THEN 1 ELSE 0)) |->
        ((IF i <= Len(d) THEN 2 * d[i] ELSE 0)
         + (IF i > 1 /\ d[i - 1] >= 5 THEN 1 ELSE 0)) % 10]

\* 2^k times a decimal number given least significant digit first
TimesPow2[d \in Seq(0..9), k \in Nat] ==
    IF k = 0 THEN d ELSE TimesPow2[DoubleLsb[d], k - 1]

\* a decimal number given least significant digit first, as text
MsbText[d \in Seq(0..9)] ==
    [i \in 1..Len(d) |-> DigitChars[d[Len(d) + 1 - i] + 1]]

\* the decimal digits of m * 2^k, most significant first
IntegerText(m, k) == MsbText[TimesPow2[LsbDigits[m], k]]

\* hundredths of m / 2^k, rounded half up
Hundredths[m \in Nat, k \in Nat] ==
    IF k >= 32 THEN 0
    ELSE IF k = 31 THEN (IF m * 100 >= 2^30 THEN 1 ELSE 0)
    ELSE ((m * 100) \div 2^k) + (IF 2 * ((m * 100) % 2^k) >= 2^k THEN 1 ELSE 0)

\* h hundredths as text with two decimals
HundredthsText[h \in Nat] ==
    NatText[h \div 100] \o <<".", DigitChars[((h % 100) \div 10) + 1],
                                   DigitChars[(h % 10) + 1]>>

\* String(result): dtostrf with two decimal places
StringOfFloat[x \in Floats] ==
    (IF x.neg THEN <<"-">> ELSE <<>>) \o
    (IF x.e >= 0 THEN IntegerText(x.m, x.e) \o <<".", "0", "0">>
     ELSE HundredthsText[Hundredths[x.m, -x.e]])

(***************************************************************************)
(* The calculator                                                          *)
(***************************************************************************)
\* the digit limit of handleKeyInput
MaxDigits == 10

\* char 0: no pending operation, and getKey()'s "no key"
NUL == "NUL"
NO_KEY == "NO_KEY"

OperatorKeys == {"A", "B", "C", "D"}
EqualsKey == "#"
ClearKey == "*"

VARIABLES
    currentInput,     \* String currentInput
    previousInput,    \* String previousInput
    operation,        \* char operation
    newCalculation,   \* bool newCalculation
    customKey,        \* loop()'s customKey
    pc,               \* where loop() stands: "poll", "handle" or "render"
    display,          \* what updateDisplay() last printed
    pressed,          \* number of keys pressed so far
    fresh             \* a freshly started calculator fed the keys pressed
                      \* since the last clear

engineVars == <<currentInput, previousInput, operation, newCalculation>>
vars == <<currentInput, previousInput, operation, newCalculation,
          customKey, pc, display, pressed, fresh>>

\* the four calculator variables as one value
Engine ==
    [currentInput   |-> currentInput,
     previousInput  |-> previousInput,
     operation      |-> operation,
     newCalculation |-> newCalculation]

\* the calculator variables as declared
EngineInit ==
    [currentInput   |-> <<>>,
     previousInput  |-> <<>>,
     operation      |-> NUL,
     newCalculation |-> FALSE]

\* variant of Apply: a division by zero keeps the dividend
ApplyKeepDividend(op, num1, num2) ==
    CASE op = "+" -> FAdd[num1, num2]
      [] op = "-" -> FSub[num1, num2]
      [] op = "*" -> FMul[num1, num2]
      [] op = "/" -> IF num2.m # 0 THEN FDiv[num1, num2] ELSE num1
      [] OTHER    -> FZero(FALSE)

\* the switch of calculateResult
Apply(op, num1, num2) ==
    CASE op = "+" -> FAdd[num1, num2]
      [] op = "-" -> FSub[num1, num2]
      [] op = "*" -> FMul[num1, num2]
      [] op = "/" -> IF num2.m # 0 THEN FDiv[num1, num2] ELSE FZero(FALSE)
      [] OTHER    -> FZero(FALSE)

\* "Format result to remove trailing decimal zeros if integer"
StripDecimals[text \in Text] ==
    IF endsWith(text, <<".", "0", "0">>) THEN remove(text, Len(text) - 3)
    ELSE IF endsWith(text, <<".", "0">>) THEN remove(text, Len(text) - 2)
    ELSE text

\* variant of FormatResult: a last decimal 0 is dropped as well
FormatResultTrimmed(result) ==
    IF endsWith(StripDecimals[StringOfFloat[result]], <<"0">>) /\
       (\E i \in 1..Len(StripDecimals[StringOfFloat[result]]) :
            StripDecimals[StringOfFloat[result]][i] = ".")
    THEN remove(StripDecimals[StringOfFloat[result]],
                Len(StripDecimals[StringOfFloat[result]]) - 1)
    ELSE StripDecimals[StringOfFloat[result]]

\* variant of FormatResult: nothing is removed
FormatResultRaw(result) == StringOfFloat[result]

\* variant of FormatResult: only the ".0" removal is there
FormatResultOnlyPointZero(result) ==
    IF endsWith(StringOfFloat[result], <<".", "0">>)
    THEN remove(StringOfFloat[result], Len(StringOfFloat[result]) - 2)
    ELSE StringOfFloat[result]

\* currentInput = String(result), then the two remove() lines
FormatResult(result) == StripDecimals[StringOfFloat[result]]

\* variant of calculateResult: newCalculation is set even when nothing is
\* calculated
calculateResultSetsFlag(st) ==
    IF Len(st.previousInput) > 0 /\ Len(st.currentInput) > 0 /\ st.operation # NUL
    THEN [currentInput   |-> FormatResult(Apply(st.operation,
                                                toFloat(st.previousInput),
                                                toFloat(st.currentInput))),
          previousInput  |-> <<>>,
          operation      |-> NUL,
          newCalculation |-> TRUE]
    ELSE [st EXCEPT !.newCalculation = TRUE]

\* variant of calculateResult: the operation stays pending after the result
calculateResultKeepOperation(st) ==
    IF Len(st.previousInput) > 0 /\ Len(st.currentInput) > 0 /\ st.operation # NUL
    THEN [currentInput   |-> FormatResult(Apply(st.operation,
                                                toFloat(st.previousInput),
                                                toFloat(st.currentInput))),
          previousInput  |-> <<>>,
          operation      |-> st.operation,
          newCalculation |-> TRUE]
    ELSE st

calculateResult(st) ==
    IF Len(st.previousInput) > 0 /\ Len(st.currentInput) > 0 /\ st.operation # NUL
    THEN LET num1   == toFloat(st.previousInput)
             num2   == toFloat(st.currentInput)
             result == Apply(st.operation, num1, num2)
         IN  [currentInput   |-> FormatResult(result),
              previousInput  |-> <<>>,
              operation      |-> NUL,
              newCalculation |-> TRUE]
    ELSE st

\* variant of MoveToPrevious: currentInput is copied and not emptied
MoveToPreviousKeepCurrent(st) ==
    [st EXCEPT !.previousInput = st.currentInput]

\* previousInput = currentInput; currentInput = ""
MoveToPrevious(st) ==
    [st EXCEPT !.previousInput = st.currentInput, !.currentInput = <<>>]

\* variant of setOperation: a pending operation is not calculated first
setOperationNoChain(st, op) ==
    IF Len(st.currentInput) > 0 \/ Len(st.previousInput) > 0
    THEN [(IF Len(st.currentInput) > 0 THEN MoveToPrevious(st) ELSE st)
          EXCEPT !.operation = op, !.newCalculation = FALSE]
    ELSE st

\* variant of setOperation: the operation is taken without any operand
setOperationUnguarded(st, op) ==
    [(IF Len(st.currentInput) > 0
      THEN IF Len(st.previousInput) > 0 /\ st.operation # NUL
           THEN MoveToPrevious(calculateResult(st))
           ELSE MoveToPrevious(st)
      ELSE st)
     EXCEPT !.operation = op, !.newCalculation = FALSE]

\* variant of setOperation: an operation already pending is kept
setOperationKeepFirst(st, op) ==
    IF Len(st.currentInput) > 0 \/ Len(st.previousInput) > 0
    THEN [(IF Len(st.currentInput) > 0
           THEN IF Len(st.previousInput) > 0 /\ st.operation # NUL
                THEN MoveToPrevious(calculateResult(st))
                ELSE MoveToPrevious(st)
           ELSE st)
          EXCEPT !.operation = IF Len(st.currentInput) = 0 /\ st.operation # NUL
                               THEN st.operation ELSE op,
                 !.newCalculation = FALSE]
    ELSE st

\* variant of setOperation: newCalculation is left as it is
setOperationKeepFlag(st, op) ==
    IF Len(st.currentInput) > 0 \/ Len(st.previousInput) > 0
    THEN [(IF Len(st.currentInput) > 0
           THEN IF Len(st.previousInput) > 0 /\ st.operation # NUL
                THEN MoveToPrevious(calculateResult(st))
                ELSE MoveToPrevious(st)
           ELSE st)
          EXCEPT !.operation = op]
    ELSE st

setOperation(st, op) ==
    IF Len(st.currentInput) > 0 \/ Len(st.previousInput) > 0
    THEN [(IF Len(st.currentInput) > 0
           THEN IF Len(st.previousInput) > 0 /\ st.operation # NUL
                THEN MoveToPrevious(calculateResult(st))
                ELSE MoveToPrevious(st)
           ELSE st)
          EXCEPT !.operation = op, !.newCalculation = FALSE]
    ELSE st

\* variant of StartNewCalculation: newCalculation stays set
StartNewCalculationKeepFlag(st, key) ==
    IF st.newCalculation /\ isDigit(key)
    THEN [EngineInit EXCEPT !.newCalculation = TRUE]
    ELSE st

\* variant of StartNewCalculation: the result stays in currentInput
StartNewCalculationKeepInput(st, key) ==
    IF st.newCalculation /\ isDigit(key)
    THEN [st EXCEPT !.previousInput = <<>>, !.operation = NUL,
                    !.newCalculation = FALSE]
    ELSE st

\* variant of StartNewCalculation: every digit starts a new calculation
StartNewCalculationAlways(st, key) ==
    IF isDigit(key) THEN EngineInit ELSE st

\* "Clear screen on new calc start if number pressed"
StartNewCalculation(st, key) ==
    IF st.newCalculation /\ isDigit(key) THEN EngineInit ELSE st

\* variant of AppendDigit: the limit is one digit later
AppendDigitInclusive(st, key) ==
    IF Len(st.currentInput) <= MaxDigits
    THEN [st EXCEPT !.currentInput = Append(st.currentInput, key)]
    ELSE st

\* variant of AppendDigit: the digit goes in front
AppendDigitFront(st, key) ==
    IF Len(st.currentInput) < MaxDigits
    THEN [st EXCEPT !.currentInput = <<key>> \o st.currentInput]
    ELSE st

\* variant of AppendDigit: at the limit the digit starts the input anew
AppendDigitWrap(st, key) ==
    IF Len(st.currentInput) < MaxDigits
    THEN [st EXCEPT !.currentInput = Append(st.currentInput, key)]
    ELSE [st EXCEPT !.currentInput = <<key>>]

\* "Number input"
AppendDigit(st, key) ==
    IF Len(st.currentInput) < MaxDigits
    THEN [st EXCEPT !.currentInput = Append(st.currentInput, key)]
    ELSE st

\* variant of ClearAll: the operation is kept
ClearAllKeepOperation(st) ==
    [st EXCEPT !.currentInput = <<>>, !.previousInput = <<>>]

\* variant of ClearAll: previousInput is kept
ClearAllKeepPrevious(st) ==
    [st EXCEPT !.currentInput = <<>>, !.operation = NUL]

\* "Clear"
ClearAll(st) ==
    [st EXCEPT !.currentInput = <<>>, !.previousInput = <<>>, !.operation = NUL]

\* the operation an operator key stands for: A add, B subtract, C multiply,
\* D divide
OperationOf(key) ==
    CASE key = "A" -> "+"
      [] key = "B" -> "-"
      [] key = "C" -> "*"
      [] key = "D" -> "/"

handleKeyInput(st, key) ==
    LET s == StartNewCalculation(st, key)
    IN  IF isDigit(key) THEN AppendDigit(s, key)
        ELSE IF key \in OperatorKeys THEN setOperation(s, OperationOf(key))
        ELSE IF key = EqualsKey THEN calculateResult(s)
        ELSE IF key = ClearKey THEN ClearAll(s)
        ELSE s

\* what updateDisplay() prints: the top bar and the main input
Rendered(st) ==
    [top  |-> st.previousInput \o
              (IF st.operation # NUL THEN <<" ", st.operation>> ELSE <<>>),
     main |-> st.currentInput]

Init ==
    /\ currentInput = EngineInit.currentInput
    /\ previousInput = EngineInit.previousInput
    /\ operation = EngineInit.operation
    /\ newCalculation = EngineInit.newCalculation
    /\ customKey = NO_KEY
    /\ pc = "poll"
    /\ display = [top |-> <<>>, main |-> <<>>]
    /\ pressed = 0
    /\ fresh = EngineInit

\* variant of PollKey: the key goes to the render pass unhandled
PollKeyUnhandled(keys, maxKeys) ==
    /\ pc = "poll"
    /\ pressed < maxKeys
    /\ \E k \in keys :
          /\ customKey' = k
          /\ pc' = "render"
    /\ pressed' = pressed + 1
    /\ UNCHANGED <<engineVars, display, fresh>>

\* loop(): customKeypad.getKey() returns a key
PollKey(keys, maxKeys) ==
    /\ pc = "poll"
    /\ pressed < maxKeys
    /\ \E k \in keys :
          /\ customKey' = k
          /\ pc' = "handle"
    /\ pressed' = pressed + 1
    /\ UNCHANGED <<engineVars, display, fresh>>

\* loop(): customKeypad.getKey() returns no key
PollNone ==
    /\ pc = "poll"
    /\ customKey' = NO_KEY
    /\ UNCHANGED <<engineVars, pc, display, pressed, fresh>>

\* the calculator variables become those of st
Becomes(st) ==
    /\ currentInput' = st.currentInput
    /\ previousInput' = st.previousInput
    /\ operation' = st.operation
    /\ newCalculation' = st.newCalculation

\* loop(): handleKeyInput(customKey)
Handle ==
    /\ pc = "handle"
    /\ Becomes(handleKeyInput(Engine, customKey))
    /\ fresh' = IF customKey = ClearKey THEN EngineInit
                ELSE handleKeyInput(fresh, customKey)
    /\ pc' = "render"
    /\ UNCHANGED <<customKey, display, pressed>>

HandleDigit == isDigit(customKey) /\ Handle
HandleOperator == customKey \in OperatorKeys /\ Handle
HandleEquals == customKey = EqualsKey /\ Handle
HandleClear == customKey = ClearKey /\ Handle

\* loop(): updateDisplay()
updateDisplay ==
    /\ pc = "render"
    /\ display' = Rendered(Engine)
    /\ pc' = "poll"
    /\ UNCHANGED <<engineVars, customKey, pressed, fresh>>

(***************************************************************************)
(* Specifications.  Each follows every key sequence over its key set up to  *)
(* a number of key presses.                                                *)
(***************************************************************************)
\* number of key presses followed by Spec and SpecZero
MaxKeys == 6

\* number of key presses followed by SpecCap: enough to fill an operand to
\* MaxDigits, press one key more, and evaluate against a second operand
MaxKeysCap == 13

ControlKeys == OperatorKeys \cup {EqualsKey, ClearKey}

\* small operands without a zero digit
Keys == {"1", "2", "3"} \cup ControlKeys

\* operands with zero digits
KeysZero == {"0", "1", "4"} \cup ControlKeys

\* operands as long as the digit limit
KeysCap == {"9", "A", "B", EqualsKey, ClearKey}

Next ==
    \/ PollKey(Keys, MaxKeys)
    \/ PollNone
    \/ HandleDigit
    \/ HandleOperator
    \/ HandleEquals
    \/ HandleClear
    \/ updateDisplay

Spec == Init /\ [][Next]_vars

NextZero ==
    \/ PollKey(KeysZero, MaxKeys)
    \/ PollNone
    \/ HandleDigit
    \/ HandleOperator
    \/ HandleEquals
    \/ HandleClear
    \/ updateDisplay

SpecZero == Init /\ [][NextZero]_vars

NextCap ==
    \/ PollKey(KeysCap, MaxKeysCap)
    \/ PollNone
    \/ HandleDigit
    \/ HandleOperator
    \/ HandleEquals
    \/ HandleClear
    \/ updateDisplay

SpecCap == Init /\ [][NextCap]_vars

(***************************************************************************)
(* Properties.  While pc = "render" the key in customKey has been handled   *)
(* and display still shows the calculator as it was before that key.       *)
(***************************************************************************)
AllDigits == {DigitChars[i] : i \in 1..10}

\* the longest operand that can be typed
Nines == [i \in 1..MaxDigits |-> "9"]

\* C1: in every reachable state, operation is none (0) if and only if
\* previousInput is empty.
OperationIffPrevious == (operation = NUL) <=> (previousInput = <<>>)

\* equals has just cleared a pending operand together with its operator
OperationIffPreviousWitness ==
    /\ pc = "render"
    /\ customKey = EqualsKey
    /\ display.top # <<>>
    /\ operation = NUL
    /\ previousInput = <<>>

\* C2 as stated: in every reachable state currentInput is at most MaxDigits
\* characters long, a result written by equals included.
InputWithinLimit == Len(currentInput) <= MaxDigits

\* C2 amended: currentInput is at most MaxDigits characters long while
\* newCalculation is false, that is while it holds typed digits; a result is
\* not limited: 9999999999 + 9 leaves the 11 characters "10000000000".
TypedInputWithinLimit ==
    /\ ~newCalculation => Len(currentInput) <= MaxDigits
    /\ (/\ pc = "render"
        /\ customKey = EqualsKey
        /\ display.top = Nines \o <<" ", "+">>
        /\ display.main = <<"9">>)
       => currentInput = <<"1", "0", "0", "0", "0", "0", "0", "0", "0", "0", "0">>

\* equals has just written a result longer than MaxDigits from operands
\* within the limit
TypedInputWithinLimitWitness ==
    /\ pc = "render"
    /\ customKey = EqualsKey
    /\ Len(display.main) <= MaxDigits
    /\ newCalculation
    /\ Len(currentInput) = MaxDigits + 1

\* loop() run over a sequence of keys: the calculator after the last of them
RECURSIVE RunKeys(_, _)
RunKeys(st, keys) ==
    IF keys = <<>> THEN st
    ELSE RunKeys(handleKeyInput(st, Head(keys)), Tail(keys))

\* length of the operands tried after a chained operator
MaxOperandLen == 1

\* the operands tried after a chained operator
Operands == UNION {[1..n -> {"0", "3"}] : n \in 1..MaxOperandLen}

AllDigitText(s) == s # <<>> /\ \A i \in 1..Len(s) : isDigit(s[i])

\* an operator key is about to be handled with both operands and an
\* operation pending
ChainStep ==
    /\ pc = "handle"
    /\ customKey \in OperatorKeys
    /\ previousInput # <<>>
    /\ operation # NUL
    /\ currentInput # <<>>

\* the state an operator key leaves when it chains
Chained ==
    /\ previousInput' = FormatResult(Apply(operation, toFloat(previousInput),
                                           toFloat(currentInput)))
    /\ currentInput' = <<>>
    /\ operation' = OperationOf(customKey)
    /\ newCalculation' = FALSE

\* C3 as stated: an operator key handled with previousInput = a, operation
\* = op1 and currentInput = b leaves previousInput = the formatted a op1 b,
\* currentInput empty, operation = op2 and newCalculation false; and typing
\* z and equals after x op1 y op2 leaves the formatted ((x op1 y) op2 z).
ChainingExact ==
    [][ChainStep =>
         /\ Chained
         /\ (AllDigitText(previousInput) /\ AllDigitText(currentInput)) =>
              \A z \in Operands :
                 RunKeys(Engine', z \o <<EqualsKey>>).currentInput =
                 FormatResult(Apply(OperationOf(customKey),
                                    Apply(operation, toFloat(previousInput),
                                          toFloat(currentInput)),
                                    toFloat(z)))]_vars

\* C3 amended: the state left by the chaining operator key is as stated, and
\* typing z and equals after x op1 y op2 leaves the formatted (r op2 z) where
\* r is the number read back from that previousInput, the formatted text of
\* (x op1 y) with its two decimals at most: 1 + 2 + 3 = leaves "6",
\* 1 / 3 * 3 = leaves "0.99".
ChainingThroughText ==
    [][ChainStep =>
         /\ Chained
         /\ (AllDigitText(previousInput) /\ AllDigitText(currentInput)) =>
              \A z \in Operands :
                 RunKeys(Engine', z \o <<EqualsKey>>).currentInput =
                 FormatResult(Apply(OperationOf(customKey),
                                    toFloat(previousInput'), toFloat(z)))
         /\ (/\ previousInput = <<"1">> /\ operation = "+"
             /\ currentInput = <<"2">> /\ customKey = "A") =>
              RunKeys(Engine', <<"3", EqualsKey>>).currentInput = <<"6">>
         /\ (/\ previousInput = <<"1">> /\ operation = "/"
             /\ currentInput = <<"3">> /\ customKey = "C") =>
              RunKeys(Engine', <<"3", EqualsKey>>).currentInput =
              <<"0", ".", "9", "9">>]_vars

\* 1 / 3 * 3 = has been typed: equals has multiplied the text 0.33 by 3
ChainingThroughTextWitness ==
    /\ pc = "render"
    /\ customKey = EqualsKey
    /\ display.top = <<"0", ".", "3", "3", " ", "*">>
    /\ display.main = <<"3">>
    /\ currentInput = <<"0", ".", "9", "9">>

\* C4: a digit d handled while newCalculation is set (a result is shown)
\* leaves currentInput = d alone, previousInput empty, operation none and
\* newCalculation false; a second digit e right after it appends, leaving
\* d followed by e and nothing else changed.
DigitAfterResult ==
    [][(pc = "handle" /\ isDigit(customKey) /\ newCalculation) =>
         /\ currentInput' = <<customKey>>
         /\ previousInput' = <<>>
         /\ operation' = NUL
         /\ newCalculation' = FALSE
         /\ \A e \in AllDigits :
               handleKeyInput(Engine', e) =
               [Engine' EXCEPT !.currentInput = <<customKey, e>>]]_vars

\* a digit has just replaced a result that was on display
DigitAfterResultWitness ==
    /\ pc = "render"
    /\ isDigit(customKey)
    /\ display.main # <<>>
    /\ currentInput = <<customKey>>
    /\ ~newCalculation

\* C5: clear leaves currentInput and previousInput empty and operation none,
\* and after every key currentInput, previousInput and operation are those
\* of a freshly started calculator fed the keys pressed since the clear,
\* whatever newCalculation was when clear was pressed.
ClearedLikeFresh ==
    /\ (pc = "render" /\ customKey = ClearKey) =>
          (currentInput = <<>> /\ previousInput = <<>> /\ operation = NUL)
    /\ fresh.currentInput = currentInput
    /\ fresh.previousInput = previousInput
    /\ fresh.operation = operation

\* clear was pressed on a result, newCalculation is still set where the fresh
\* calculator has it clear, and an operator key has been handled since
ClearedLikeFreshWitness ==
    /\ pc = "render"
    /\ customKey \in OperatorKeys
    /\ newCalculation
    /\ ~fresh.newCalculation

\* equals is about to be handled with both operands and an operation pending
EqualsStep ==
    /\ pc = "handle"
    /\ customKey = EqualsKey
    /\ previousInput # <<>>
    /\ currentInput # <<>>
    /\ operation # NUL

\* the value equals computes from the operands as they stand
Value == Apply(operation, toFloat(previousInput), toFloat(currentInput))

\* the state equals leaves around its result
ResultShown ==
    /\ previousInput' = <<>>
    /\ operation' = NUL
    /\ newCalculation' = TRUE

\* equals has just been handled for a / b
Computed(a, op, b) ==
    /\ pc = "render"
    /\ customKey = EqualsKey
    /\ newCalculation
    /\ display.top = a \o <<" ", op>>
    /\ display.main = b

HasPoint(s) == \E i \in 1..Len(s) : s[i] = "."

\* C6 as stated: 10 / 4 = leaves "2.5", and no result keeps a padding zero
\* as its last decimal.
ShortestDecimals ==
    /\ Computed(<<"1", "0">>, "/", <<"4">>) => currentInput = <<"2", ".", "5">>
    /\ (pc = "render" /\ customKey = EqualsKey /\ newCalculation
        /\ HasPoint(currentInput))
       => currentInput[Len(currentInput)] # "0"

\* C6 amended: a non-integral result keeps two decimals, the padding zero
\* included: 10 / 4 = leaves "2.50", and 5.5 is stored as "5.50".
TwoDecimals ==
    /\ Computed(<<"1", "0">>, "/", <<"4">>)
       => currentInput = <<"2", ".", "5", "0">>
    /\ (pc = "render" /\ customKey = EqualsKey /\ newCalculation
        /\ HasPoint(currentInput))
       => (/\ Len(currentInput) >= 4
           /\ currentInput[Len(currentInput) - 2] = "."
           /\ SubSeq(currentInput, Len(currentInput) - 1, Len(currentInput))
              # <<"0", "0">>)
    /\ FormatResult(toFloat(<<"5", ".", "5">>)) = <<"5", ".", "5", "0">>

\* 10 / 4 = has been typed and the result has its padding zero
TwoDecimalsWitness ==
    /\ Computed(<<"1", "0">>, "/", <<"4">>)
    /\ currentInput = <<"2", ".", "5", "0">>

\* the value x is a whole number
IsIntegral(x) ==
    \/ x.m = 0
    \/ x.e >= 0
    \/ (x.e > -24 /\ x.m % 2^(-x.e) = 0)

\* the text of a whole number: digits after an optional sign
IntegerTextShape(s) ==
    IF s # <<>> /\ s[1] = "-" THEN AllDigitText(Tail(s)) ELSE AllDigitText(s)

\* a op b in whole numbers, as text, for natural a and b with a whole result
ExactText(a, op, b) ==
    CASE op = "+" -> NatText[a + b]
      [] op = "*" -> NatText[a * b]
      [] op = "-" -> IF a >= b THEN NatText[a - b] ELSE <<"-">> \o NatText[b - a]
      [] op = "/" -> NatText[a \div b]

\* operands for which a op b is whole and computed without rounding
ExactCase ==
    /\ AllDigitText(previousInput)
    /\ AllDigitText(currentInput)
    /\ Len(previousInput) + Len(currentInput) <= 7
    /\ operation = "/" =>
          /\ DecValue[currentInput] # 0
          /\ DecValue[previousInput] % DecValue[currentInput] = 0

\* C7: equals handled with previousInput = a and currentInput = b both
\* non-empty and an operation op pending leaves currentInput = the text of
\* a op b, a whole value as plain digits without ".0" or ".00" (12 + 3 gives
\* "15"), previousInput empty, operation none and newCalculation set.
EqualsShowsResult ==
    [][EqualsStep =>
         /\ ResultShown
         /\ currentInput' = FormatResult(Value)
         /\ IsIntegral(Value) => IntegerTextShape(currentInput')
         /\ ExactCase =>
               currentInput' = ExactText(DecValue[previousInput], operation,
                                         DecValue[currentInput])
         /\ (/\ previousInput = <<"1", "2">> /\ operation = "+"
             /\ currentInput = <<"3">>) => currentInput' = <<"1", "5">>]_vars

\* 12 + 3 = has been typed and 15 is the result
EqualsShowsResultWitness ==
    /\ Computed(<<"1", "2">>, "+", <<"3">>)
    /\ currentInput = <<"1", "5">>
    /\ previousInput = <<>>
    /\ operation = NUL

\* the state equals leaves for the zero result of 1 - 1
ZeroResult ==
    calculateResult([currentInput |-> <<"1">>, previousInput |-> <<"1">>,
                     operation |-> "-", newCalculation |-> FALSE])

\* C8: equals handled for a division whose second operand reads as 0 ("0",
\* "00", ...) leaves, for every first operand, currentInput = "0",
\* previousInput empty, operation none and newCalculation set: the state a
\* zero result of any other calculation leaves.
DivisionByZeroIsZero ==
    [][(EqualsStep /\ operation = "/" /\ toFloat(currentInput).m = 0) =>
         /\ currentInput' = <<"0">>
         /\ ResultShown
         /\ Engine' = ZeroResult]_vars

\* 4 / 00 = has been typed and 0 is the result
DivisionByZeroIsZeroWitness ==
    /\ Computed(<<"4">>, "/", <<"0", "0">>)
    /\ currentInput = <<"0">>
    /\ previousInput = <<>>
    /\ operation = NUL

\* length of the digit sequences typed into an empty calculator
MaxTyped == 3

\* the digit sequences typed into an empty calculator
Typed == UNION {[1..n -> {"0", "5", "9"}] : n \in 1..MaxTyped}

\* C9: digits typed from the empty state, MaxDigits of them at most, leave
\* currentInput = the digits in typing order, leading zeros kept, with
\* previousInput empty and operation none; the render pass after a key
\* changes none of the calculator variables.
DigitsConcatenate ==
    [][/\ (/\ pc = "handle"
           /\ isDigit(customKey)
           /\ previousInput = <<>>
           /\ operation = NUL
           /\ ~newCalculation
           /\ Len(currentInput) < MaxDigits)
          => (/\ currentInput' = Append(currentInput, customKey)
              /\ previousInput' = <<>>
              /\ operation' = NUL
              /\ newCalculation' = FALSE)
       /\ (/\ pc = "handle"
           /\ currentInput = <<>>
           /\ previousInput = <<>>
           /\ operation = NUL)
          => \A d \in Typed :
                RunKeys(Engine, d) =
                [EngineInit EXCEPT !.currentInput = d]
       /\ pc = "render" => UNCHANGED engineVars]_vars

\* MaxDigits digits have been typed into the empty calculator and rendered
DigitsConcatenateWitness ==
    /\ pc = "poll"
    /\ pressed = MaxDigits
    /\ currentInput = Nines
    /\ display = [top |-> <<>>, main |-> Nines]
    /\ previousInput = <<>>
    /\ operation = NUL
    /\ ~newCalculation

\* C10: with currentInput MaxDigits characters long and newCalculation
\* false, a digit key changes none of currentInput, previousInput, operation
\* and newCalculation, so the first MaxDigits digits typed stay.
DigitsBeyondLimitDropped ==
    [][(/\ pc = "handle"
        /\ isDigit(customKey)
        /\ Len(currentInput) = MaxDigits
        /\ ~newCalculation)
       => (/\ UNCHANGED engineVars
           /\ \A d \in AllDigits : handleKeyInput(Engine, d) = Engine)]_vars

\* an eleventh digit has been handled and the ten typed before it stay
DigitsBeyondLimitDroppedWitness ==
    /\ pc = "render"
    /\ isDigit(customKey)
    /\ pressed = MaxDigits + 1
    /\ display.main = Nines
    /\ currentInput = Nines
    /\ ~newCalculation

\* C11: equals handled while previousInput is empty, or currentInput is
\* empty, or operation is none changes none of currentInput, previousInput,
\* operation and newCalculation; so a second equals right after a result
\* does not calculate again.
EqualsWithoutOperandsIdle ==
    [][(/\ pc = "handle"
        /\ customKey = EqualsKey
        /\ (previousInput = <<>> \/ currentInput = <<>> \/ operation = NUL))
       => (/\ UNCHANGED engineVars
           /\ handleKeyInput(Engine', EqualsKey) = Engine)]_vars

\* equals has been handled a second time on a result, which stays
EqualsWithoutOperandsIdleWitness ==
    /\ pc = "render"
    /\ customKey = EqualsKey
    /\ newCalculation
    /\ display = [top |-> <<>>, main |-> currentInput]
    /\ currentInput # <<>>
    /\ previousInput = <<>>
    /\ operation = NUL

\* C12: an operator key handled while currentInput and previousInput are
\* both empty changes nothing: operation stays none and newCalculation keeps
\* its value, also when it is still set after a result and a clear; so no
\* key ever leaves an operation pending with previousInput empty.
OperatorWithoutOperandsIdle ==
    [][/\ (/\ pc = "handle"
           /\ customKey \in OperatorKeys
           /\ currentInput = <<>>
           /\ previousInput = <<>>)
          => (UNCHANGED engineVars /\ operation' = NUL)
       /\ operation' # NUL => previousInput' # <<>>]_vars

\* an operator key has been handled on the empty calculator with
\* newCalculation still set, and it stays set
OperatorWithoutOperandsIdleWitness ==
    /\ pc = "render"
    /\ customKey \in OperatorKeys
    /\ display = [top |-> <<>>, main |-> <<>>]
    /\ currentInput = <<>>
    /\ previousInput = <<>>
    /\ operation = NUL
    /\ newCalculation

\* C13: the result text equals stores, on the equals key or inside a chained
\* operator key, never ends in ".00" or ".0", and it is String(result) with
\* at most one of the two suffixes removed, once: the two removals are
\* alternatives and a text is never stripped twice.
ResultStrippedOnce ==
    /\ StripDecimals[<<"5", ".", "0", ".", "0", "0">>] = <<"5", ".", "0">>
    /\ StripDecimals[<<"5", ".", "0", "0", ".", "0">>]
       = <<"5", ".", "0", "0">>
    /\ [][EqualsStep =>
            /\ ~endsWith(currentInput', <<".", "0", "0">>)
            /\ ~endsWith(currentInput', <<".", "0">>)
            /\ \/ currentInput' = StringOfFloat[Value]
               \/ currentInput' \o <<".", "0", "0">> = StringOfFloat[Value]
               \/ currentInput' \o <<".", "0">> = StringOfFloat[Value]]_vars
    /\ [][ChainStep =>
            /\ ~endsWith(previousInput', <<".", "0", "0">>)
            /\ ~endsWith(previousInput', <<".", "0">>)]_vars

\* 4 / 1 = has been typed and the result has lost its ".00"
ResultStrippedOnceWitness ==
    /\ Computed(<<"4">>, "/", <<"1">>)
    /\ currentInput = <<"4">>
    /\ StringOfFloat[toFloat(<<"4">>)] = <<"4", ".", "0", "0">>

\* C14 as stated: in every reachable state currentInput holds digit
\* characters only, no sign and no decimal point.
InputDigitsOnly == \A i \in 1..Len(currentInput) : isDigit(currentInput[i])

\* C14 amended: currentInput holds digit characters only while
\* newCalculation is false, that is while it holds typed digits; a result
\* written by equals can carry a sign or a decimal point: 1 - 2 = leaves
\* "-1" and 1 / 2 = leaves "0.50".
TypedInputDigitsOnly ==
    /\ ~newCalculation =>
          \A i \in 1..Len(currentInput) : isDigit(currentInput[i])
    /\ Computed(<<"1">>, "-", <<"2">>) => currentInput = <<"-", "1">>
    /\ Computed(<<"1">>, "/", <<"2">>) => currentInput = <<"0", ".", "5", "0">>

\* 1 - 2 = has been typed and the result carries a sign
TypedInputDigitsOnlyWitness ==
    /\ Computed(<<"1">>, "-", <<"2">>)
    /\ currentInput = <<"-", "1">>

\* C15: an operator key handled with currentInput empty and previousInput
\* non-empty only replaces the operation: previousInput and currentInput
\* stay, operation becomes the key's and newCalculation is false; nothing is
\* calculated however often this is repeated, and the operation of the last
\* key is the one the next equals applies.
OperatorReplaced ==
    [][(/\ pc = "handle"
        /\ customKey \in OperatorKeys
        /\ currentInput = <<>>
        /\ previousInput # <<>>)
       => (/\ UNCHANGED <<previousInput, currentInput>>
           /\ operation' = OperationOf(customKey)
           /\ newCalculation' = FALSE
           /\ \A k \in OperatorKeys :
                 handleKeyInput(Engine', k) =
                 [Engine' EXCEPT !.operation = OperationOf(k)]
           /\ \A z \in Operands :
                 RunKeys(Engine', z \o <<EqualsKey>>).currentInput =
                 FormatResult(Apply(OperationOf(customKey),
                                    toFloat(previousInput), toFloat(z))))]_vars

\* an operator key has replaced a different pending operation
OperatorReplacedWitness ==
    /\ pc = "render"
    /\ customKey \in OperatorKeys
    /\ display.main = <<>>
    /\ display.top = previousInput \o <<" ", "+">>
    /\ previousInput # <<>>
    /\ currentInput = <<>>
    /\ operation = "*"

\* C16: an operator key handled on a shown result r (currentInput = r,
\* newCalculation set, no operation pending) goes on from the result:
\* previousInput becomes r, currentInput empty, operation the key's and
\* newCalculation false, so that the digits typed next make the second
\* operand and r is not wiped.
OperatorContinuesResult ==
    [][(/\ pc = "handle"
        /\ customKey \in OperatorKeys
        /\ newCalculation
        /\ currentInput # <<>>
        /\ previousInput = <<>>
        /\ operation = NUL)
       => (/\ previousInput' = currentInput
           /\ currentInput' = <<>>
           /\ operation' = OperationOf(customKey)
           /\ newCalculation' = FALSE
           /\ \A d \in Typed :
                 RunKeys(Engine', d) = [Engine' EXCEPT !.currentInput = d])]_vars

\* an operator key has moved a shown result, recognisable by its sign or
\* point, into previousInput
OperatorContinuesResultWitness ==
    /\ pc = "render"
    /\ customKey \in OperatorKeys
    /\ display.top = <<>>
    /\ display.main = previousInput
    /\ ~AllDigitText(previousInput)
    /\ currentInput = <<>>
    /\ operation = OperationOf(customKey)
    /\ ~newCalculation

\* C17: loop() goes poll, handleKeyInput, updateDisplay: a poll that returns
\* a key is followed by one handleKeyInput of that key and then one
\* updateDisplay before the next poll, so at every poll the display shows
\* the calculator as it is; a poll that returns no key is followed by
\* neither and changes no calculator variable.
PollHandleRender ==
    /\ [](pc = "poll" => display = Rendered(Engine))
    /\ [](pc \in {"handle", "render"} => customKey # NO_KEY)
    /\ [][/\ pc = "poll" =>
                /\ UNCHANGED <<engineVars, display>>
                /\ \/ customKey' # NO_KEY /\ pc' = "handle"
                   \/ customKey' = NO_KEY /\ pc' = "poll"
          /\ pc = "handle" =>
                /\ pc' = "render"
                /\ customKey' = customKey
                /\ Engine' = handleKeyInput(Engine, customKey)
                /\ display' = display
          /\ pc = "render" =>
                /\ pc' = "poll"
                /\ customKey' = customKey
                /\ display' = Rendered(Engine)
                /\ UNCHANGED engineVars]_vars

\* a key has been handled and rendered, and a poll after it has returned no
\* key
PollHandleRenderWitness ==
    /\ pc = "poll"
    /\ customKey = NO_KEY
    /\ pressed > 0
    /\ currentInput # <<>>
    /\ display = Rendered(Engine)

\* C18: in every reachable state newCalculation set implies previousInput
\* empty and operation none; the calculateResult inside a chained operator
\* key sets newCalculation, and the key has it false again when it has been
\* handled.
FlagMeansNothingPending ==
    /\ [](newCalculation => (previousInput = <<>> /\ operation = NUL))
    /\ [][ChainStep =>
            /\ calculateResult(Engine).newCalculation
            /\ ~newCalculation'
            /\ previousInput' # <<>>
            /\ operation' # NUL]_vars

\* a chained operator key has been handled: both operands were on display,
\* the result is pending with the new operation and newCalculation is false
FlagMeansNothingPendingWitness ==
    /\ pc = "render"
    /\ customKey \in OperatorKeys
    /\ display.main # <<>>
    /\ display.top # <<>>
    /\ currentInput = <<>>
    /\ previousInput # <<>>
    /\ operation = OperationOf(customKey)
    /\ ~newCalculation

\* C19: a digit is never appended to a calculated result.  Whenever
\* newCalculation is false, currentInput holds digits only, MaxDigits of
\* them at most, and it got there by being emptied or by a digit key that
\* appended its digit to such text or, on a result, replaced the result; so
\* text with '-' or '.' or longer than MaxDigits is only there while
\* newCalculation is set.
OnlyTypedDigitsGrow ==
    /\ [](~newCalculation =>
            /\ Len(currentInput) <= MaxDigits
            /\ \A i \in 1..Len(currentInput) : isDigit(currentInput[i]))
    /\ []((\/ Len(currentInput) > MaxDigits
           \/ \E i \in 1..Len(currentInput) : currentInput[i] \in {"-", "."})
          => newCalculation)
    /\ [][/\ (currentInput' # currentInput /\ ~newCalculation') =>
                \/ currentInput' = <<>>
                \/ /\ pc = "handle"
                   /\ isDigit(customKey)
                   /\ currentInput' = IF newCalculation THEN <<customKey>>
                                      ELSE Append(currentInput, customKey)
          /\ (pc = "handle" /\ isDigit(customKey) /\ newCalculation) =>
                currentInput' = <<customKey>>]_vars

\* a digit has been handled on a negative result and has replaced it
OnlyTypedDigitsGrowWitness ==
    /\ pc = "render"
    /\ isDigit(customKey)
    /\ display.main # <<>>
    /\ display.main[1] = "-"
    /\ currentInput = <<customKey>>
    /\ ~newCalculation

\* C20: a digit key never changes previousInput or operation: it changes
\* currentInput and newCalculation at most, the reset of a new calculation
\* being taken only where previousInput is empty and operation none already.
DigitKeepsPending ==
    [][(pc = "handle" /\ isDigit(customKey)) =>
         /\ UNCHANGED <<previousInput, operation>>
         /\ newCalculation => (previousInput = <<>> /\ operation = NUL)
         /\ \A d \in AllDigits :
               /\ handleKeyInput(Engine, d).previousInput = previousInput
               /\ handleKeyInput(Engine, d).operation = operation]_vars

\* a digit has been appended to the second operand with the first operand
\* and the operation still pending as displayed
DigitKeepsPendingWitness ==
    /\ pc = "render"
    /\ isDigit(customKey)
    /\ previousInput # <<>>
    /\ operation # NUL
    /\ display.top = previousInput \o <<" ", operation>>
    /\ display.main # <<>>
    /\ currentInput = Append(display.main, customKey)

====
